---- MODULE Spec2Model ----
(***************************************************************************)
(* Model of the query router of the mental-health support agent            *)
(* (src/agent/router_agent.py) and of the per-message workflow around it   *)
(* (src/interface/web/app.py, src/app.py, src/agent/information_agent.py). *)
(*                                                                         *)
(* A Python str is a sequence of characters; a character is a one-letter   *)
(* TLA+ string, except "sup2", which stands for U+00B2 SUPERSCRIPT TWO.    *)
(* A float score is held as an integer number of halves (score * 2): the   *)
(* scorer only adds integers and multiplies an integer by 1.5.             *)
(***************************************************************************)
EXTENDS Integers, Sequences, FiniteSets, TLC

VARIABLES
  state,       \* the AgentState dict of the message being processed
  pc,          \* workflow position: "router", a handler's name, "end", "error"
  retrievals,  \* calls of get_relevant_context made for this message
  shown_menu,  \* the numbered options the last reply displayed to the user
  turns,       \* messages of the conversation handed to the workflow so far
  lexicon      \* the module-level HIGH/MILD dicts every call reads

vars == <<state, pc, retrievals, shown_menu, turns, lexicon>>

----------------------------------------------------------------------------
(* Characters and the str methods the router uses *)

LowerLetters ==
  <<"a","b","c","d","e","f","g","h","i","j","k","l","m",
    "n","o","p","q","r","s","t","u","v","w","x","y","z">>

UpperLetters ==
  <<"A","B","C","D","E","F","G","H","I","J","K","L","M",
    "N","O","P","Q","R","S","T","U","V","W","X","Y","Z">>

DecimalDigits == <<"0","1","2","3","4","5","6","7","8","9">>

Range(s) == {s[i] : i \in 1..Len(s)}

LowerSet == Range(LowerLetters)
UpperSet == Range(UpperLetters)
DecimalSet == Range(DecimalDigits)

\* str.isdigit() is also true of digits that are not decimal, such as U+00B2
DigitChars == DecimalSet \cup {"sup2"}

Whitespace == {" ", "\t", "\n"}

\* str.lower() of one character
LowerMap ==
  [c \in UpperSet |->
     LowerLetters[CHOOSE i \in 1..Len(UpperLetters) : UpperLetters[i] = c]]

LowerChar(c) == IF c \in DOMAIN LowerMap THEN LowerMap[c] ELSE c

\* str.lower()
Lower(s) == [i \in 1..Len(s) |-> LowerChar(s[i])]

\* str.strip(): leading and trailing whitespace removed
Strip(s) ==
  LET keep == {i \in 1..Len(s) : s[i] \notin Whitespace}
  IN IF keep = {} THEN <<>>
     ELSE LET lo == CHOOSE i \in keep : \A j \in keep : i <= j
              hi == CHOOSE i \in keep : \A j \in keep : j <= i
          IN SubSeq(s, lo, hi)

\* sub occurs in s starting at index i (1-based)
OccursAt(sub, s, i) ==
  /\ i >= 1
  /\ i + Len(sub) - 1 <= Len(s)
  /\ \A j \in 1..Len(sub) : s[i + j - 1] = sub[j]

\* Python's `sub in s`
Contains(s, sub) == \E i \in 1..(Len(s) - Len(sub) + 1) : OccursAt(sub, s, i)

\* any(k in s for k in keywords)
ContainsAny(s, keywords) ==
  \E k \in 1..Len(keywords) : Contains(s, keywords[k])

\* str.find(sub): 0-based index of the first occurrence, -1 if there is none
Find(s, sub) ==
  IF Contains(s, sub)
  THEN (CHOOSE i \in 1..(Len(s) - Len(sub) + 1) :
          /\ OccursAt(sub, s, i)
          /\ \A k \in 1..(i - 1) : ~OccursAt(sub, s, k)) - 1
  ELSE -1

\* str.isdigit(): non-empty and every character a digit
IsDigit(s) == Len(s) > 0 /\ \A i \in 1..Len(s) : s[i] \in DigitChars

\* int(s) is defined on decimal digit strings; on "sup2" it raises ValueError
IntDefined(s) == Len(s) > 0 /\ \A i \in 1..Len(s) : s[i] \in DecimalSet

DigitValue(c) == (CHOOSE i \in 1..Len(DecimalDigits) : DecimalDigits[i] = c) - 1

RECURSIVE IntOf(_)
IntOf(s) ==
  IF Len(s) = 0 THEN 0
  ELSE 10 * IntOf(SubSeq(s, 1, Len(s) - 1)) + DigitValue(s[Len(s)])

\* str.isupper(): at least one cased character and no lowercase one
IsUpper(w) ==
  /\ \E i \in 1..Len(w) : w[i] \in UpperSet
  /\ \A i \in 1..Len(w) : w[i] \notin LowerSet

\* str.split(): the maximal runs of non-whitespace characters
SplitWords(s) ==
  LET starts == {i \in 1..Len(s) :
                   s[i] \notin Whitespace /\ (i = 1 \/ s[i - 1] \in Whitespace)}
      EndOf(i) == CHOOSE j \in i..Len(s) :
                    /\ \A k \in i..j : s[k] \notin Whitespace
                    /\ (j = Len(s) \/ s[j + 1] \in Whitespace)
  IN {<<i, SubSeq(s, i, EndOf(i))>> : i \in starts}

\* str.count(c)
CountChar(s, c) == Cardinality({i \in 1..Len(s) : s[i] = c})

\* \w of Python's re on str: letters, digits (isalnum) and the underscore
IsWordChar(c) ==
  \/ c \in LowerSet
  \/ c \in UpperSet
  \/ c \in DigitChars
  \/ c = "_"

\* \b holds before index i (1-based; i = Len(s) + 1 is the end of the string)
WordBoundaryAt(s, i) ==
  LET before == i > 1 /\ IsWordChar(s[i - 1])
      after  == i <= Len(s) /\ IsWordChar(s[i])
  IN before # after

\* router_agent.py:16-38, phrase/weight pairs in source order
HIGH_DISTRESS_KEYWORDS ==
  <<
    <<<<"d","o","n","'","t"," ","f","e","e","l"," ","g","o","o","d">>, 5>>,
    <<<<"d","o","n","t"," ","f","e","e","l"," ","g","o","o","d">>, 5>>,
    <<<<"n","o","t"," ","f","e","e","l"," ","g","o","o","d">>, 5>>,
    <<<<"f","e","e","l"," ","t","e","r","r","i","b","l","e">>, 5>>,
    <<<<"f","e","e","l"," ","a","w","f","u","l">>, 5>>,
    <<<<"f","e","e","l"," ","h","o","r","r","i","b","l","e">>, 5>>,
    <<<<"c","a","n","'","t"," ","t","a","k","e"," ","i","t">>, 5>>,
    <<<<"c","a","n","t"," ","t","a","k","e"," ","i","t">>, 5>>,
    <<<<"c","a","n","'","t"," ","t","a","k","e"," ","t","h","i","s">>, 5>>,
    <<<<"b","r","e","a","k","i","n","g"," ","d","o","w","n">>, 5>>,
    <<<<"f","a","l","l","i","n","g"," ","a","p","a","r","t">>, 5>>,
    <<<<"f","a","l","l","i","n","g"," ","t","o"," ","p","i","e","c","e","s">>, 5>>,
    <<<<"o","v","e","r","w","h","e","l","m","e","d">>, 5>>,
    <<<<"c","a","n","'","t"," ","c","o","p","e">>, 5>>,
    <<<<"c","a","n","t"," ","c","o","p","e">>, 5>>,
    <<<<"l","o","s","i","n","g"," ","i","t">>, 5>>,
    <<<<"g","i","v","i","n","g"," ","u","p">>, 5>>,
    <<<<"l","o","s","t"," ","c","o","n","t","r","o","l">>, 5>>,
    <<<<"c","a","n","'","t"," ","b","r","e","a","t","h","e">>, 5>>,
    <<<<"c","a","n","t"," ","b","r","e","a","t","h","e">>, 5>>,
    <<<<"s","u","f","f","o","c","a","t","i","n","g">>, 5>>,
    <<<<"d","r","o","w","n","i","n","g">>, 5>>,
    <<<<"s","i","n","k","i","n","g">>, 5>>,
    <<<<"s","p","i","r","a","l","i","n","g">>, 5>>,
    <<<<"c","a","n","'","t"," ","h","a","n","d","l","e">>, 5>>,
    <<<<"c","a","n","t"," ","h","a","n","d","l","e">>, 5>>,
    <<<<"t","o","o"," ","m","u","c","h">>, 5>>,
    <<<<"b","r","e","a","k","i","n","g">>, 5>>,
    <<<<"b","r","o","k","e","n">>, 5>>,
    <<<<"s","h","a","t","t","e","r","e","d">>, 5>>,
    <<<<"d","e","v","a","s","t","a","t","e","d">>, 5>>,
    <<<<"d","e","s","t","r","o","y","e","d">>, 5>>,
    <<<<"c","r","u","s","h","e","d">>, 5>>,
    <<<<"u","n","b","e","a","r","a","b","l","e">>, 5>>,
    <<<<"a","g","o","n","i","z","i","n","g">>, 5>>,
    <<<<"t","o","r","m","e","n","t","e","d">>, 5>>,
    <<<<"d","e","s","p","e","r","a","t","e">>, 5>>,
    <<<<"h","o","p","e","l","e","s","s">>, 5>>,
    <<<<"n","o"," ","h","o","p","e">>, 5>>,
    <<<<"w","o","r","t","h","l","e","s","s">>, 5>>,
    <<<<"u","s","e","l","e","s","s">>, 5>>,
    <<<<"f","a","i","l","u","r","e">>, 5>>,
    <<<<"e","m","p","t","y"," ","i","n","s","i","d","e">>, 5>>,
    <<<<"h","o","l","l","o","w">>, 5>>,
    <<<<"v","o","i","d">>, 5>>,
    <<<<"p","a","r","a","l","y","z","e","d">>, 5>>,
    <<<<"f","r","o","z","e","n">>, 5>>,
    <<<<"t","r","a","p","p","e","d">>, 5>>,
    <<<<"r","u","i","n","e","d">>, 5>>,
    <<<<"o","v","e","r">>, 5>>,
    <<<<"d","o","n","e">>, 5>>,
    <<<<"h","a","t","e"," ","m","y","s","e","l","f">>, 5>>,
    <<<<"h","a","t","e"," ","m","y"," ","l","i","f","e">>, 5>>,
    <<<<"w","a","n","t"," ","t","o"," ","d","i","s","a","p","p","e","a","r">>, 5>>,
    <<<<"n","o","t","h","i","n","g"," ","m","a","t","t","e","r","s">>, 5>>,
    <<<<"w","h","y"," ","b","o","t","h","e","r">>, 5>>,
    <<<<"w","h","a","t","'","s"," ","t","h","e"," ","p","o","i","n","t">>, 5>>
  >>

\* router_agent.py:41-70, phrase/weight pairs in source order
MILD_DISTRESS_KEYWORDS ==
  <<
    <<<<"f","e","e","l"," ","b","a","d">>, 1>>,
    <<<<"f","e","e","l","i","n","g"," ","d","o","w","n">>, 1>>,
    <<<<"f","e","e","l","i","n","g"," ","l","o","w">>, 1>>,
    <<<<"f","e","e","l","i","n","g"," ","s","a","d">>, 1>>,
    <<<<"f","e","e","l","i","n","g"," ","a","n","x","i","o","u","s">>, 1>>,
    <<<<"f","e","e","l","i","n","g"," ","d","e","p","r","e","s","s","e","d">>, 1>>,
    <<<<"f","e","e","l","i","n","g"," ","s","t","r","e","s","s","e","d">>, 1>>,
    <<<<"s","t","r","e","s","s","e","d"," ","o","u","t">>, 1>>,
    <<<<"b","u","r","n","t"," ","o","u","t">>, 1>>,
    <<<<"n","o","t"," ","o","k","a","y">>, 1>>,
    <<<<"n","o","t"," ","o","k">>, 1>>,
    <<<<"n","o","t"," ","w","e","l","l">>, 1>>,
    <<<<"u","n","w","e","l","l">>, 1>>,
    <<<<"s","t","r","u","g","g","l","i","n","g">>, 1>>,
    <<<<"h","a","r","d"," ","t","i","m","e">>, 1>>,
    <<<<"d","i","f","f","i","c","u","l","t"," ","t","i","m","e">>, 1>>,
    <<<<"t","o","u","g","h"," ","t","i","m","e">>, 1>>,
    <<<<"r","o","u","g","h"," ","t","i","m","e">>, 1>>,
    <<<<"b","a","d"," ","d","a","y">>, 1>>,
    <<<<"e","x","h","a","u","s","t","e","d">>, 1>>,
    <<<<"d","r","a","i","n","e","d">>, 1>>,
    <<<<"t","i","r","e","d">>, 1>>,
    <<<<"w","o","r","n"," ","o","u","t">>, 1>>,
    <<<<"w","o","r","r","i","e","d">>, 1>>,
    <<<<"s","c","a","r","e","d">>, 1>>,
    <<<<"a","f","r","a","i","d">>, 1>>,
    <<<<"f","e","a","r","f","u","l">>, 1>>,
    <<<<"l","o","n","e","l","y">>, 1>>,
    <<<<"a","l","o","n","e">>, 1>>,
    <<<<"i","s","o","l","a","t","e","d">>, 1>>,
    <<<<"d","i","s","c","o","n","n","e","c","t","e","d">>, 1>>,
    <<<<"h","e","l","p","l","e","s","s">>, 1>>,
    <<<<"p","o","w","e","r","l","e","s","s">>, 1>>,
    <<<<"s","t","u","c","k">>, 1>>,
    <<<<"e","m","p","t","y">>, 1>>,
    <<<<"n","u","m","b">>, 1>>,
    <<<<"d","e","t","a","c","h","e","d">>, 1>>,
    <<<<"a"," ","b","i","t"," ","o","f","f">>, 1>>,
    <<<<"f","e","e","l","i","n","g"," ","a"," ","b","i","t"," ","o","f","f">>, 1>>,
    <<<<"d","o","w","n"," ","i","n"," ","t","h","e"," ","d","u","m","p","s">>, 1>>,
    <<<<"f","e","e","l","i","n","g"," ","b","l","u","e">>, 1>>,
    <<<<"m","e","l","a","n","c","h","o","l","y">>, 1>>,
    <<<<"a","n","x","i","o","u","s"," ","m","e","s","s">>, 1>>,
    <<<<"e","m","o","t","i","o","n","a","l"," ","w","r","e","c","k">>, 1>>,
    <<<<"e","m","o","t","i","o","n","a","l">>, 1>>,
    <<<<"c","a","n","'","t"," ","f","o","c","u","s">>, 1>>,
    <<<<"c","a","n","t"," ","f","o","c","u","s">>, 1>>,
    <<<<"d","i","s","t","r","a","c","t","e","d">>, 1>>,
    <<<<"i","r","r","i","t","a","b","l","e">>, 1>>,
    <<<<"r","e","s","t","l","e","s","s">>, 1>>,
    <<<<"t","e","n","s","e">>, 1>>,
    <<<<"u","n","e","a","s","y">>, 1>>,
    <<<<"o","v","e","r","t","h","i","n","k","i","n","g">>, 1>>,
    <<<<"r","u","m","i","n","a","t","i","n","g">>, 1>>,
    <<<<"o","b","s","e","s","s","i","n","g">>, 1>>,
    <<<<"s","e","l","f","-","d","o","u","b","t","i","n","g">>, 1>>,
    <<<<"d","o","u","b","t","i","n","g"," ","m","y","s","e","l","f">>, 1>>,
    <<<<"i","n","s","e","c","u","r","e">>, 1>>,
    <<<<"f","r","u","s","t","r","a","t","e","d">>, 1>>,
    <<<<"a","n","g","r","y">>, 1>>,
    <<<<"u","p","s","e","t">>, 1>>,
    <<<<"s","a","d">>, 1>>,
    <<<<"d","e","p","r","e","s","s","e","d">>, 1>>,
    <<<<"a","n","x","i","o","u","s">>, 1>>,
    <<<<"s","t","r","e","s","s","e","d">>, 1>>,
    <<<<"d","o","w","n">>, 1>>,
    <<<<"u","n","h","a","p","p","y">>, 1>>,
    <<<<"h","u","r","t">>, 1>>,
    <<<<"b","o","t","h","e","r","e","d">>, 1>>,
    <<<<"n","e","e","d"," ","h","e","l","p">>, 1>>,
    <<<<"i"," ","n","e","e","d"," ","h","e","l","p">>, 1>>,
    <<<<"c","o","n","f","u","s","e","d">>, 1>>,
    <<<<"n","o","t"," ","s","u","r","e">>, 1>>,
    <<<<"d","o","n","'","t"," ","k","n","o","w">>, 1>>,
    <<<<"d","o","n","t"," ","k","n","o","w">>, 1>>,
    <<<<"n","e","e","d"," ","s","o","m","e","o","n","e">>, 1>>,
    <<<<"n","e","e","d"," ","t","o"," ","t","a","l","k">>, 1>>,
    <<<<"s","o","m","e","o","n","e"," ","t","o"," ","t","a","l","k"," ","t","o">>, 1>>
  >>

\* router_agent.py:87-91
crisis_keywords ==
  <<
    <<"s","u","i","c","i","d","e">>,
    <<"s","u","i","c","i","d","a","l">>,
    <<"k","i","l","l"," ","m","y","s","e","l","f">>,
    <<"e","n","d"," ","m","y"," ","l","i","f","e">>,
    <<"w","a","n","t"," ","t","o"," ","d","i","e">>,
    <<"s","e","l","f"," ","h","a","r","m">>,
    <<"h","u","r","t"," ","m","y","s","e","l","f">>,
    <<"c","u","t","t","i","n","g">>,
    <<"o","v","e","r","d","o","s","e">>,
    <<"n","o"," ","r","e","a","s","o","n"," ","t","o"," ","l","i","v","e">>,
    <<"b","e","t","t","e","r"," ","o","f","f"," ","d","e","a","d">>,
    <<"c","a","n","'","t"," ","g","o"," ","o","n">>,
    <<"e","n","d"," ","i","t"," ","a","l","l">>
  >>

\* router_agent.py:105
assessment_keywords ==
  <<
    <<"a","s","s","e","s","s","m","e","n","t">>,
    <<"t","e","s","t">>,
    <<"e","v","a","l","u","a","t","e">>,
    <<"s","c","r","e","e","n">>,
    <<"d","a","s","s">>,
    <<"p","h","q">>
  >>

\* router_agent.py:110-117
resource_keywords ==
  <<
    <<"s","u","p","p","o","r","t"," ","s","e","r","v","i","c","e">>,
    <<"m","e","n","t","a","l"," ","h","e","a","l","t","h"," ","s","e","r","v","i","c","e">>,
    <<"s","i","n","g","a","p","o","r","e"," ","s","e","r","v","i","c","e">>,
    <<"h","o","t","l","i","n","e">>,
    <<"h","e","l","p","l","i","n","e">>,
    <<"c","r","i","s","i","s"," ","l","i","n","e">>,
    <<"c","a","l","l">>,
    <<"p","h","o","n","e">>,
    <<"i","m","h">>,
    <<"s","o","s">>,
    <<"s","a","m","a","r","i","t","a","n","s">>,
    <<"c","h","a","t"," ","s","e","r","v","i","c","e">>,
    <<"c","h","a","t"," ","c","e","n","t","e","r">>,
    <<"t","h","e","r","a","p","y">>,
    <<"t","h","e","r","a","p","i","s","t">>,
    <<"c","o","u","n","s","e","l","i","n","g">>,
    <<"c","o","u","n","s","e","l","o","r">>,
    <<"p","s","y","c","h","i","a","t","r","i","s","t">>,
    <<"c","l","i","n","i","c">>,
    <<"h","o","s","p","i","t","a","l">>,
    <<"e","m","e","r","g","e","n","c","y">>,
    <<"u","r","g","e","n","t"," ","c","a","r","e">>,
    <<"w","h","e","r","e"," ","c","a","n"," ","i">>,
    <<"w","h","e","r","e"," ","t","o">>,
    <<"w","h","o"," ","c","a","n"," ","h","e","l","p">>,
    <<"w","h","e","r","e"," ","t","o"," ","g","e","t"," ","h","e","l","p">>
  >>

\* router_agent.py:122
escalation_keywords ==
  <<
    <<"t","a","l","k"," ","t","o"," ","s","o","m","e","o","n","e">>,
    <<"s","p","e","a","k"," ","t","o"," ","p","r","o","f","e","s","s","i","o","n","a","l">>,
    <<"r","e","a","l"," ","p","e","r","s","o","n">>,
    <<"h","u","m","a","n"," ","c","o","u","n","s","e","l","o","r">>
  >>

\* router_agent.py:141-147
selection_patterns ==
  <<
    <<"f","i","r","s","t">>,
    <<"s","e","c","o","n","d">>,
    <<"t","h","i","r","d">>,
    <<"f","o","u","r","t","h">>,
    <<"f","i","f","t","h">>,
    <<"f","i","r","s","t"," ","o","n","e">>,
    <<"s","e","c","o","n","d"," ","o","n","e">>,
    <<"t","h","i","r","d"," ","o","n","e">>,
    <<"t","h","e"," ","f","i","r","s","t">>,
    <<"t","h","e"," ","s","e","c","o","n","d">>,
    <<"t","h","e"," ","t","h","i","r","d">>,
    <<"o","p","t","i","o","n"," ","1">>,
    <<"o","p","t","i","o","n"," ","2">>,
    <<"o","p","t","i","o","n"," ","3">>,
    <<"c","h","o","i","c","e"," ","1">>,
    <<"c","h","o","i","c","e"," ","2">>,
    <<"c","h","o","i","c","e"," ","3">>
  >>

\* router_agent.py:174-180, pattern/index pairs in source order
selection_map ==
  <<
    <<<<"f","i","r","s","t">>, 0>>,
    <<<<"s","e","c","o","n","d">>, 1>>,
    <<<<"t","h","i","r","d">>, 2>>,
    <<<<"f","o","u","r","t","h">>, 3>>,
    <<<<"f","i","f","t","h">>, 4>>,
    <<<<"f","i","r","s","t"," ","o","n","e">>, 0>>,
    <<<<"s","e","c","o","n","d"," ","o","n","e">>, 1>>,
    <<<<"t","h","i","r","d"," ","o","n","e">>, 2>>,
    <<<<"t","h","e"," ","f","i","r","s","t">>, 0>>,
    <<<<"t","h","e"," ","s","e","c","o","n","d">>, 1>>,
    <<<<"t","h","e"," ","t","h","i","r","d">>, 2>>,
    <<<<"o","p","t","i","o","n"," ","1">>, 0>>,
    <<<<"o","p","t","i","o","n"," ","2">>, 1>>,
    <<<<"o","p","t","i","o","n"," ","3">>, 2>>,
    <<<<"c","h","o","i","c","e"," ","1">>, 0>>,
    <<<<"c","h","o","i","c","e"," ","2">>, 1>>,
    <<<<"c","h","o","i","c","e"," ","3">>, 2>>
  >>

\* router_agent.py:305-306
intensity_adverbs ==
  <<
    <<"v","e","r","y">>,
    <<"r","e","a","l","l","y">>,
    <<"s","o">>,
    <<"e","x","t","r","e","m","e","l","y">>,
    <<"i","n","c","r","e","d","i","b","l","y">>,
    <<"t","o","t","a","l","l","y">>,
    <<"c","o","m","p","l","e","t","e","l","y">>,
    <<"a","b","s","o","l","u","t","e","l","y">>,
    <<"u","t","t","e","r","l","y">>,
    <<"q","u","i","t","e">>
  >>

\* router_agent.py:335
fast_assessment_keywords ==
  <<
    <<"a","s","s","e","s","s","m","e","n","t">>,
    <<"t","e","s","t">>,
    <<"e","v","a","l","u","a","t","e">>,
    <<"s","c","r","e","e","n">>,
    <<"d","a","s","s">>,
    <<"p","h","q">>
  >>

\* router_agent.py:339-345
fast_resource_keywords ==
  <<
    <<"s","u","p","p","o","r","t"," ","s","e","r","v","i","c","e">>,
    <<"m","e","n","t","a","l"," ","h","e","a","l","t","h"," ","s","e","r","v","i","c","e">>,
    <<"s","i","n","g","a","p","o","r","e"," ","s","e","r","v","i","c","e">>,
    <<"h","o","t","l","i","n","e">>,
    <<"h","e","l","p","l","i","n","e">>,
    <<"c","r","i","s","i","s"," ","l","i","n","e">>,
    <<"c","a","l","l">>,
    <<"p","h","o","n","e">>,
    <<"i","m","h">>,
    <<"s","o","s">>,
    <<"s","a","m","a","r","i","t","a","n","s">>,
    <<"c","h","a","t"," ","s","e","r","v","i","c","e">>,
    <<"t","h","e","r","a","p","y">>,
    <<"t","h","e","r","a","p","i","s","t">>,
    <<"c","o","u","n","s","e","l","i","n","g">>,
    <<"c","o","u","n","s","e","l","o","r">>,
    <<"p","s","y","c","h","i","a","t","r","i","s","t">>,
    <<"c","l","i","n","i","c">>,
    <<"h","o","s","p","i","t","a","l">>,
    <<"w","h","e","r","e"," ","c","a","n"," ","i">>,
    <<"w","h","e","r","e"," ","t","o">>,
    <<"w","h","o"," ","c","a","n"," ","h","e","l","p">>
  >>

\* router_agent.py:350
fast_escalation_keywords ==
  <<
    <<"t","a","l","k"," ","t","o"," ","s","o","m","e","o","n","e">>,
    <<"s","p","e","a","k"," ","t","o"," ","p","r","o","f","e","s","s","i","o","n","a","l">>,
    <<"r","e","a","l"," ","p","e","r","s","o","n">>,
    <<"h","u","m","a","n">>
  >>

\* router_agent.py:354-358
info_keywords ==
  <<
    <<"w","h","a","t"," ","i","s">>,
    <<"t","e","l","l"," ","m","e"," ","a","b","o","u","t">>,
    <<"e","x","p","l","a","i","n">>,
    <<"l","e","a","r","n">>,
    <<"u","n","d","e","r","s","t","a","n","d">>,
    <<"h","o","w"," ","t","o">>,
    <<"c","a","n"," ","y","o","u"," ","h","e","l","p">>,
    <<"a","d","v","i","c","e">>,
    <<"t","i","p","s">>,
    <<"c","o","p","e">>,
    <<"d","e","a","l"," ","w","i","t","h">>,
    <<"m","a","n","a","g","e">>,
    <<"h","a","n","d","l","e">>,
    <<"o","v","e","r","c","o","m","e">>,
    <<"i","m","p","r","o","v","e">>,
    <<"f","e","e","l"," ","b","e","t","t","e","r">>
  >>

\* the indicator list without its last entry
menu_resource_indicators_short ==
  << <<"h","o","t","l","i","n","e">>, <<"h","e","l","p","l","i","n","e">>,
     <<"c","h","a","t">>, <<"i","m","h">>, <<"s","o","s">>,
     <<"s","e","r","v","i","c","e">> >>

\* router_agent.py:404
menu_resource_indicators ==
  <<
    <<"h","o","t","l","i","n","e">>,
    <<"h","e","l","p","l","i","n","e">>,
    <<"c","h","a","t">>,
    <<"i","m","h">>,
    <<"s","o","s">>,
    <<"s","e","r","v","i","c","e">>,
    <<"t","h","e","r","a","p","y">>
  >>
----------------------------------------------------------------------------
(* The matcher: router_agent.py:189-230 *)

\* the tables with a HIGH phrase entered a second time, as a MILD one
LexiconTables_overlap ==
  [HIGH_DISTRESS_KEYWORDS |-> HIGH_DISTRESS_KEYWORDS,
   MILD_DISTRESS_KEYWORDS |->
      Append(MILD_DISTRESS_KEYWORDS, <<HIGH_DISTRESS_KEYWORDS[1][1], 1>>)]

\* the two module-level dicts as the import of router_agent leaves them
LexiconTables ==
  [HIGH_DISTRESS_KEYWORDS |-> HIGH_DISTRESS_KEYWORDS,
   MILD_DISTRESS_KEYWORDS |-> MILD_DISTRESS_KEYWORDS]

\* the comparison of re.IGNORECASE
OccursAtNoCase(sub, s, i) ==
  /\ i >= 1
  /\ i + Len(sub) - 1 <= Len(s)
  /\ \A j \in 1..Len(sub) : LowerChar(s[i + j - 1]) = LowerChar(sub[j])

\* the phrase is looked up as a plain substring, without the two \b
matches_as_substring(phrase, text) ==
  \E i \in 1..(Len(text) - Len(phrase) + 1) : OccursAtNoCase(phrase, text, i)

\* re.search(r'\b' + re.escape(phrase) + r'\b', text, re.IGNORECASE)
matches_with_word_boundary(phrase, text) ==
  \E i \in 1..(Len(text) - Len(phrase) + 1) :
     /\ OccursAtNoCase(phrase, text, i)
     /\ WordBoundaryAt(text, i)
     /\ WordBoundaryAt(text, i + Len(phrase))

NegWords ==
  [not |-> <<"n","o","t">>, never |-> <<"n","e","v","e","r">>,
   no |-> <<"n","o">>, neither |-> <<"n","e","i","t","h","e","r">>,
   don_t |-> <<"d","o","n","'","t">>, dont |-> <<"d","o","n","t">>,
   doesn_t |-> <<"d","o","e","s","n","'","t">>, doesnt |-> <<"d","o","e","s","n","t">>,
   didn_t |-> <<"d","i","d","n","'","t">>, didnt |-> <<"d","i","d","n","t">>,
   won_t |-> <<"w","o","n","'","t">>, wont |-> <<"w","o","n","t">>,
   isn_t |-> <<"i","s","n","'","t">>, isnt |-> <<"i","s","n","t">>,
   wasn_t |-> <<"w","a","s","n","'","t">>, wasnt |-> <<"w","a","s","n","t">>,
   hardly |-> <<"h","a","r","d","l","y">>, barely |-> <<"b","a","r","e","l","y">>,
   scarcely |-> <<"s","c","a","r","c","e","l","y">>,
   at |-> <<"a","t">>, all |-> <<"a","l","l">>,
   really |-> <<"r","e","a","l","l","y">>,
   actually |-> <<"a","c","t","u","a","l","l","y">>,
   truly |-> <<"t","r","u","l","y">>, very |-> <<"v","e","r","y">>,
   particularly |-> <<"p","a","r","t","i","c","u","l","a","r","l","y">>,
   that |-> <<"t","h","a","t">>, so |-> <<"s","o">>, too |-> <<"t","o","o">>]

\* router_agent.py:211-219. Every pattern has the shape \b w1 \s+ w2 \s+ ... wn \s+;
\* a pattern is the set of its alternatives, each the sequence w1..wn.
negation_patterns ==
  LET W == NegWords IN
  << {<<n>> \o m : n \in {W.not, W.never, W.no, W.neither},
                   m \in {<<W.at, W.all>>, <<W.really>>, <<W.actually>>,
                          <<W.truly>>, <<W.very>>, <<W.particularly>>}},
     {<<n, m>> : n \in {W.not, W.never, W.no},
                 m \in {W.that, W.so, W.too, W.very}},
     {<<n>> : n \in {W.not, W.never, W.no, W.neither, W.don_t, W.dont,
                     W.doesn_t, W.doesnt, W.didn_t, W.didnt, W.won_t, W.wont,
                     W.isn_t, W.isnt, W.wasn_t, W.wasnt}},
     {<<n>> : n \in {W.hardly, W.barely, W.scarcely}} >>

\* words[1] \s+ words[2] \s+ ... \s+ matches s from index i on
RECURSIVE MatchWordsAt(_, _, _)
MatchWordsAt(words, s, i) ==
  IF words = <<>> THEN TRUE
  ELSE LET w == Head(words)
       IN /\ OccursAtNoCase(w, s, i)
          /\ \E j \in (i + Len(w) + 1)..(Len(s) + 1) :
                /\ \A k \in (i + Len(w))..(j - 1) : s[k] \in Whitespace
                /\ MatchWordsAt(Tail(words), s, j)

\* re.search(pattern, s, re.IGNORECASE) for a pattern of negation_patterns
SearchPattern(alternatives, s) ==
  \E i \in 1..Len(s) :
     /\ WordBoundaryAt(s, i)
     /\ \E a \in alternatives : MatchWordsAt(a, s, i)

\* the characters before the phrase that are inspected for a negation
NegationWindow == 30

\* phrase_position is the 0-based index str.find returned
is_negated(phrase, text, phrase_position) ==
  LET start_pos == IF phrase_position - NegationWindow > 0
                   THEN phrase_position - NegationWindow ELSE 0
      preceding_text == SubSeq(text, start_pos + 1, phrase_position)
  IN \E p \in 1..Len(negation_patterns) :
        SearchPattern(negation_patterns[p], preceding_text)

----------------------------------------------------------------------------
(* Detectors: router_agent.py:85-186 *)

\* the query is searched as typed, without lower()
detect_crisis_case_sensitive(query) == ContainsAny(query, crisis_keywords)

detect_crisis(query) == ContainsAny(Lower(query), crisis_keywords)

\* the resource group consulted before the assessment group
detect_explicit_intent_resource_first(query) ==
  LET query_lower == Lower(query)
  IN IF ContainsAny(query_lower, resource_keywords) THEN "resource"
     ELSE IF ContainsAny(query_lower, assessment_keywords) THEN "assessment"
     ELSE IF ContainsAny(query_lower, escalation_keywords) THEN "human_escalation"
     ELSE ""

detect_explicit_intent(query) ==
  LET query_lower == Lower(query)
  IN IF ContainsAny(query_lower, assessment_keywords) THEN "assessment"
     ELSE IF ContainsAny(query_lower, resource_keywords) THEN "resource"
     ELSE IF ContainsAny(query_lower, escalation_keywords) THEN "human_escalation"
     ELSE ""

\* int() raises ValueError on a string that isdigit() but is not decimal
detect_menu_reply_raises(query, last_menu_options) ==
  LET query_lower == Strip(Lower(query))
  IN IsDigit(query_lower) /\ Len(last_menu_options) > 0 /\ ~IntDefined(query_lower)

detect_menu_reply(query, last_menu_options) ==
  LET query_lower == Strip(Lower(query))
  IN IF IsDigit(query_lower) /\ Len(last_menu_options) > 0
     THEN LET option_num == IntOf(query_lower)
          IN 1 <= option_num /\ option_num <= Len(last_menu_options)
     ELSE ContainsAny(query_lower, selection_patterns)

extract_menu_selection_raises(query, menu_options) ==
  LET query_lower == Strip(Lower(query))
  IN IsDigit(query_lower) /\ ~IntDefined(query_lower)

\* a number counted from the end of the list
extract_menu_selection_from_end(query, menu_options) ==
  LET query_lower == Strip(Lower(query))
      numbered == /\ IsDigit(query_lower)
                  /\ IntDefined(query_lower)
                  /\ 1 <= IntOf(query_lower)
                  /\ IntOf(query_lower) <= Len(menu_options)
      hits == {k \in 1..Len(selection_map) :
                 /\ Contains(query_lower, selection_map[k][1])
                 /\ selection_map[k][2] < Len(menu_options)}
  IN IF numbered THEN menu_options[Len(menu_options) + 1 - IntOf(query_lower)]
     ELSE IF hits # {}
     THEN LET k == CHOOSE k \in hits : \A h \in hits : k <= h
          IN menu_options[selection_map[k][2] + 1]
     ELSE <<>>

\* the first pattern of selection_map, in its order, that occurs in the
\* query and whose index is inside the list; "" is the empty sequence
extract_menu_selection(query, menu_options) ==
  LET query_lower == Strip(Lower(query))
      numbered == /\ IsDigit(query_lower)
                  /\ IntDefined(query_lower)
                  /\ 1 <= IntOf(query_lower)
                  /\ IntOf(query_lower) <= Len(menu_options)
      hits == {k \in 1..Len(selection_map) :
                 /\ Contains(query_lower, selection_map[k][1])
                 /\ selection_map[k][2] < Len(menu_options)}
  IN IF numbered THEN menu_options[IntOf(query_lower)]
     ELSE IF hits # {}
     THEN LET k == CHOOSE k \in hits : \A h \in hits : k <= h
          IN menu_options[selection_map[k][2] + 1]
     ELSE <<>>

----------------------------------------------------------------------------
(* The distress scorer: router_agent.py:233-322.  Scores are in halves. *)


\* only single-word phrases are looked up, so a phrase of several words
\* never adds to the words it is made of
Contribution_single_word(entry, query_lower) ==
  LET phrase == entry[1]
      weight == entry[2]
  IN IF ~Contains(phrase, <<" ">>) /\ matches_with_word_boundary(phrase, query_lower)
     THEN LET phrase_index == Find(query_lower, Lower(phrase))
          IN IF ~is_negated(phrase, query_lower, phrase_index)
             THEN weight ELSE 0
     ELSE 0

\* the weight a table entry adds: router_agent.py:259-266 and 269-276
Contribution(entry, query_lower) ==
  LET phrase == entry[1]
      weight == entry[2]
  IN IF matches_with_word_boundary(phrase, query_lower)
     THEN LET phrase_index == Find(query_lower, Lower(phrase))
          IN IF ~is_negated(phrase, query_lower, phrase_index)
             THEN weight ELSE 0
     ELSE 0

\* the weights the first k entries of a table add up to
SumTable(table, query_lower, k) ==
  LET sum[n \in 0..k] ==
        IF n = 0 THEN 0
        ELSE sum[n - 1] + Contribution(table[n], query_lower)
  IN sum[k]

\* the 1.5 factor applied after the punctuation and capitals bonuses
apply_intensity_modifiers_late(query, base_score) ==
  LET query_lower == Lower(query)
      exclamation_count == CountChar(query, "!")
      caps_words == {w \in SplitWords(query) : IsUpper(w[2]) /\ Len(w[2]) >= 2}
      with_bonus == base_score + 2 * (2 * exclamation_count)
                      + 2 * (3 * Cardinality(caps_words))
  IN IF ContainsAny(query_lower, intensity_adverbs)
     THEN (with_bonus * 3) \div 2
     ELSE with_bonus

apply_intensity_modifiers(query, base_score) ==
  LET query_lower == Lower(query)
      after_adverb == IF ContainsAny(query_lower, intensity_adverbs)
                      THEN (base_score * 3) \div 2
                      ELSE base_score
      exclamation_count == CountChar(query, "!")
      after_marks == IF exclamation_count >= 1
                     THEN after_adverb + 2 * (2 * exclamation_count)
                     ELSE after_adverb
      caps_words == {w \in SplitWords(query) : IsUpper(w[2]) /\ Len(w[2]) >= 2}
  IN IF Cardinality(caps_words) >= 1
     THEN after_marks + 2 * (3 * Cardinality(caps_words))
     ELSE after_marks

\* the high threshold taken as exclusive
distress_level_of_strict(score) ==
  IF score > 2 * 5 THEN "high"
  ELSE IF score >= 2 * 1 THEN "mild"
  ELSE "none"

distress_level_of(score) ==
  IF score >= 2 * 5 THEN "high"
  ELSE IF score >= 2 * 1 THEN "mild"
  ELSE "none"

detect_distress_level(query) ==
  LET query_lower == Lower(query)
      high == SumTable(lexicon.HIGH_DISTRESS_KEYWORDS, query_lower,
                       Len(lexicon.HIGH_DISTRESS_KEYWORDS))
      mild == SumTable(lexicon.MILD_DISTRESS_KEYWORDS, query_lower,
                       Len(lexicon.MILD_DISTRESS_KEYWORDS))
      score == apply_intensity_modifiers(query, 2 * (high + mild))
  IN [level |-> distress_level_of(score), score |-> score]

----------------------------------------------------------------------------
(* The fallback classifier and the orchestrator: router_agent.py:325-436 *)

\* the resource group looked up before the assessment group
classify_query_fast_resource_first(query) ==
  LET query_lower == Lower(query)
  IN IF ContainsAny(query_lower, fast_resource_keywords) THEN "resource"
     ELSE IF ContainsAny(query_lower, fast_assessment_keywords) THEN "assessment"
     ELSE IF ContainsAny(query_lower, fast_escalation_keywords) THEN "human_escalation"
     ELSE IF ContainsAny(query_lower, info_keywords) THEN "information"
     ELSE "information"

classify_query_fast(query) ==
  LET query_lower == Lower(query)
  IN IF ContainsAny(query_lower, fast_assessment_keywords) THEN "assessment"
     ELSE IF ContainsAny(query_lower, fast_resource_keywords) THEN "resource"
     ELSE IF ContainsAny(query_lower, fast_escalation_keywords) THEN "human_escalation"
     ELSE IF ContainsAny(query_lower, info_keywords) THEN "information"
     ELSE "information"

\* state.get("last_menu_options", [])
GetMenu(st) ==
  IF "last_menu_options" \in DOMAIN st THEN st.last_menu_options ELSE <<>>

Decision(agent, level, score, crisis) ==
  [agent |-> agent, distress_level |-> level, distress_score |-> score,
   crisis_detected |-> crisis]

\* the ValueError of int() leaves route_query through either menu function
route_query_raises(query, st) ==
  /\ ~detect_crisis(query)
  /\ \/ detect_menu_reply_raises(query, GetMenu(st))
     \/ /\ detect_menu_reply(query, GetMenu(st))
        /\ extract_menu_selection_raises(query, GetMenu(st))

\* the distress tier consulted before the explicit-intent tier
route_query_distress_first(query, st) ==
  LET last_menu_options == GetMenu(st)
      selected_option == extract_menu_selection(query, last_menu_options)
      explicit_intent == detect_explicit_intent(query)
      distress == detect_distress_level(query)
  IN IF detect_crisis(query)
     THEN Decision("crisis_intervention", "none", 0, TRUE)
     ELSE IF detect_menu_reply(query, last_menu_options)
     THEN IF /\ selected_option # <<>>
             /\ ContainsAny(Lower(selected_option), menu_resource_indicators)
          THEN Decision("resource", "none", 0, FALSE)
          ELSE Decision("information", "none", 0, FALSE)
     ELSE IF distress.level # "none"
     THEN Decision("information", distress.level, distress.score, FALSE)
     ELSE IF explicit_intent # ""
     THEN Decision(explicit_intent, "none", 0, FALSE)
     ELSE Decision(classify_query_fast(query), distress.level, distress.score, FALSE)

\* the distress tier reuses a level left in the state by an earlier message
route_query_stale(query, st) ==
  LET last_menu_options == GetMenu(st)
      selected_option == extract_menu_selection(query, last_menu_options)
      explicit_intent == detect_explicit_intent(query)
      distress == IF "distress_level" \in DOMAIN st /\ st.distress_level # "none"
                  THEN [level |-> st.distress_level,
                        score |-> IF "distress_score" \in DOMAIN st
                                  THEN st.distress_score ELSE 0]
                  ELSE detect_distress_level(query)
  IN IF detect_crisis(query)
     THEN Decision("crisis_intervention", "none", 0, TRUE)
     ELSE IF detect_menu_reply(query, last_menu_options)
     THEN IF /\ selected_option # <<>>
             /\ ContainsAny(Lower(selected_option), menu_resource_indicators)
          THEN Decision("resource", "none", 0, FALSE)
          ELSE Decision("information", "none", 0, FALSE)
     ELSE IF explicit_intent # ""
     THEN Decision(explicit_intent, "none", 0, FALSE)
     ELSE IF distress.level # "none"
     THEN Decision("information", distress.level, distress.score, FALSE)
     ELSE Decision(classify_query_fast(query), distress.level, distress.score, FALSE)

\* a detected crisis flagged but handed to the human-escalation handler
route_query_crisis_escalated(query, st) ==
  LET last_menu_options == GetMenu(st)
      selected_option == extract_menu_selection(query, last_menu_options)
      explicit_intent == detect_explicit_intent(query)
      distress == detect_distress_level(query)
  IN IF detect_crisis(query)
     THEN Decision("human_escalation", "none", 0, TRUE)
     ELSE IF detect_menu_reply(query, last_menu_options)
     THEN IF /\ selected_option # <<>>
             /\ ContainsAny(Lower(selected_option), menu_resource_indicators)
          THEN Decision("resource", "none", 0, FALSE)
          ELSE Decision("information", "none", 0, FALSE)
     ELSE IF explicit_intent # ""
     THEN Decision(explicit_intent, "none", 0, FALSE)
     ELSE IF distress.level # "none"
     THEN Decision("information", distress.level, distress.score, FALSE)
     ELSE Decision(classify_query_fast(query), distress.level, distress.score, FALSE)

route_query(query, st) ==
  LET last_menu_options == GetMenu(st)
      selected_option == extract_menu_selection(query, last_menu_options)
      explicit_intent == detect_explicit_intent(query)
      distress == detect_distress_level(query)
  IN IF detect_crisis(query)
     THEN Decision("crisis_intervention", "none", 0, TRUE)
     ELSE IF detect_menu_reply(query, last_menu_options)
     THEN IF /\ selected_option # <<>>
             /\ ContainsAny(Lower(selected_option), menu_resource_indicators)
          THEN Decision("resource", "none", 0, FALSE)
          ELSE Decision("information", "none", 0, FALSE)
     ELSE IF explicit_intent # ""
     THEN Decision(explicit_intent, "none", 0, FALSE)
     ELSE IF distress.level # "none"
     THEN Decision("information", distress.level, distress.score, FALSE)
     ELSE Decision(classify_query_fast(query), distress.level, distress.score, FALSE)

----------------------------------------------------------------------------
(* router_node and the handlers: router_agent.py:439-487, app.py:403-451 *)

Get(st, key, default) == IF key \in DOMAIN st THEN st[key] ELSE default

Put(st, key, value) ==
  [k \in DOMAIN st \cup {key} |-> IF k = key THEN value ELSE st[k]]

CrisisNotice == "crisis_notice"

\* what get_relevant_context returns, as one chunk of context
RoutingContext == "routing_context"

\* a missing counter is initialised and the increment is skipped
CountTurn_skip_first(st) ==
  LET s1 == IF "last_menu_options" \in DOMAIN st THEN st
            ELSE Put(st, "last_menu_options", <<>>)
  IN IF "turn_count" \in DOMAIN s1
     THEN Put(s1, "turn_count", s1.turn_count + 1)
     ELSE Put(s1, "turn_count", 0)

\* router_agent.py:451-457: the fields are initialised, the turn is counted
CountTurn(st) ==
  LET s1 == IF "last_menu_options" \in DOMAIN st THEN st
            ELSE Put(st, "last_menu_options", <<>>)
      s2 == IF "turn_count" \in DOMAIN s1 THEN s1 ELSE Put(s1, "turn_count", 0)
  IN Put(s2, "turn_count", s2.turn_count + 1)

\* router_agent.py:472-473: context is fetched unless crisis or menu reply
NeedsContext(st, routing_result) ==
  /\ routing_result.agent # "crisis_intervention"
  /\ ~detect_menu_reply(st.current_query, GetMenu(st))

\* the menu is cleared once a reply to it has been resolved
ApplyRouting_clear_menu(st, routing_result) ==
  LET s1 == Put(st, "current_agent", routing_result.agent)
      s2 == Put(s1, "distress_level", routing_result.distress_level)
      s3 == Put(s2, "distress_score", routing_result.distress_score)
      s4 == Put(s3, "crisis_detected", routing_result.crisis_detected)
      s5 == IF routing_result.crisis_detected
            THEN Put(s4, "messages", Append(s4.messages, CrisisNotice))
            ELSE s4
  IN IF NeedsContext(s5, routing_result)
     THEN Put(s5, "context", Append(Get(s5, "context", <<>>), RoutingContext))
     ELSE IF routing_result.crisis_detected THEN s5
     ELSE Put(s5, "last_menu_options", <<>>)

\* router_agent.py:459-481 once route_query has returned
ApplyRouting(st, routing_result) ==
  LET s1 == Put(st, "current_agent", routing_result.agent)
      s2 == Put(s1, "distress_level", routing_result.distress_level)
      s3 == Put(s2, "distress_score", routing_result.distress_score)
      s4 == Put(s3, "crisis_detected", routing_result.crisis_detected)
      s5 == IF routing_result.crisis_detected
            THEN Put(s4, "messages", Append(s4.messages, CrisisNotice))
            ELSE s4
  IN IF NeedsContext(s5, routing_result)
     THEN Put(s5, "context", Append(Get(s5, "context", <<>>), RoutingContext))
     ELSE s5

RouterNode ==
  /\ pc = "router"
  /\ LET counted == CountTurn(state)
         query == state.current_query
     IN IF route_query_raises(query, counted)
        THEN /\ state' = counted
             /\ pc' = "error"
             /\ UNCHANGED retrievals
        ELSE LET routing_result == route_query(query, counted)
             IN /\ state' = ApplyRouting(counted, routing_result)
                /\ pc' = routing_result.agent
                /\ retrievals' = IF NeedsContext(counted, routing_result)
                                 THEN retrievals + 1 ELSE retrievals
  /\ UNCHANGED <<shown_menu, turns, lexicon>>

\* the numbered menu of the high-distress reply: information_agent.py:319-322
DistressMenu ==
  << <<"U","n","d","e","r","s","t","a","n","d","i","n","g"," ","w","h","a","t"," ","y","o","u","'","r","e"," ","f","e","e","l","i","n","g">>,
     <<"C","o","p","i","n","g"," ","s","t","r","a","t","e","g","i","e","s"," ","t","h","a","t"," ","c","a","n"," ","h","e","l","p"," ","r","i","g","h","t"," ","n","o","w">>,
     <<"C","o","n","n","e","c","t","i","n","g"," ","y","o","u"," ","t","o"," ","p","r","o","f","e","s","s","i","o","n","a","l"," ","s","u","p","p","o","r","t"," ","i","n"," ","S","i","n","g","a","p","o","r","e">>,
     <<"J","u","s","t"," ","b","e","i","n","g"," ","h","e","r","e"," ","t","o"," ","l","i","s","t","e","n"," ","-"," ","w","h","a","t","e","v","e","r"," ","y","o","u"," ","n","e","e","d">> >>

\* every handler appends its reply and marks the message complete
Reply(st, response) ==
  Put(Put(st, "messages", Append(st.messages, response)), "current_agent", "complete")

\* information_agent.py:203-491: a distressed user gets the support menu
\* (numbered when the level is high); no branch writes last_menu_options
InformationNode ==
  /\ pc = "information"
  /\ LET distress_level == Get(state, "distress_level", "none")
     IN IF distress_level = "high"
        THEN /\ state' = Reply(state, "distress_menu_numbered")
             /\ shown_menu' = DistressMenu
        ELSE IF distress_level = "mild"
        THEN /\ state' = Reply(state, "distress_menu_bullets")
             /\ shown_menu' = <<>>
        ELSE /\ state' = Reply(state, "information_reply")
             /\ shown_menu' = <<>>
  /\ pc' = "end"
  /\ UNCHANGED <<retrievals, turns, lexicon>>

\* crisis_agent.py:18-97
CrisisNode ==
  /\ pc = "crisis_intervention"
  /\ state' = Reply(state, "crisis_reply")
  /\ shown_menu' = <<>>
  /\ pc' = "end"
  /\ UNCHANGED <<retrievals, turns, lexicon>>

\* resource_agent.py:165-252
ResourceNode ==
  /\ pc = "resource"
  /\ state' = Reply(state, "resource_reply")
  /\ shown_menu' = <<>>
  /\ pc' = "end"
  /\ UNCHANGED <<retrievals, turns, lexicon>>

\* assessment_agent.py:174-271
AssessmentNode ==
  /\ pc = "assessment"
  /\ state' = Reply(state, "assessment_reply")
  /\ shown_menu' = <<>>
  /\ pc' = "end"
  /\ UNCHANGED <<retrievals, turns, lexicon>>

\* escalation_agent.py:211-251
EscalationNode ==
  /\ pc = "human_escalation"
  /\ state' = Reply(state, "escalation_reply")
  /\ shown_menu' = <<>>
  /\ pc' = "end"
  /\ UNCHANGED <<retrievals, turns, lexicon>>

----------------------------------------------------------------------------
(* Inputs *)

\* pieces in a message
MaxPhrases == 1

\* pieces a message is made of
Phrases ==
  {<<"s","a","d"," ","f","i","r","s","t"," ","t","e","s","t"," ","n","e","v","e","r"," ","H","u","r","t"," ","M","y","s","e","l","f">>,
    <<"n","e","v","e","r"," ","H","u","r","t"," ","M","y","s","e","l","f">>,
    <<"o","v","e","r","w","h","e","l","m","e","d"," ","t","e","s","t">>,
    <<"t","e","s","t">>,
    <<"o","v","e","r","w","h","e","l","m","e","d">>,
    <<"s","a","d">>,
    <<"v","e","r","y"," ","s","a","d">>,
    <<"v","e","r","y"," ","s","a","d"," ","t","i","r","e","d"," ","a","l","o","n","e">>,
    <<"f","i","r","s","t">>,
    <<"f","o","u","r","t","h"," ","t","e","s","t">>,
    <<"f","o","u","r","t","h">>,
    <<"2">>,
    <<"3">>,
    <<"0">>,
    <<"h","u","m","a","n">>,
    <<"W","O","W","!">>,
    <<"h","e","l","l","o">>,
    <<"t","h","e","r","a","p","i","s","t">>,
    <<"sup2">> }

RECURSIVE JoinWords(_)
JoinWords(ws) ==
  IF Len(ws) = 0 THEN <<>>
  ELSE IF Len(ws) = 1 THEN ws[1]
  ELSE ws[1] \o <<" ">> \o JoinWords(Tail(ws))

\* an adverb, one keyword, one '!' and one ALL-CAPS token
TextVerySadShout ==
  <<"v","e","r","y"," ","S","A","D","!">>

\* two adverbs, one keyword
TextSoVerySad ==
  <<"s","o"," ","v","e","r","y"," ","s","a","d">>

\* a reference text of the documentation
TextExtremelyAnxious ==
  <<"e","x","t","r","e","m","e","l","y"," ","a","n","x","i","o","u","s"," ","a","n","d"," ","s","c","a","r","e","d","!","!","!">>

\* a negated keyword
TextNotAtAllWorried ==
  <<"I"," ","a","m"," ","n","o","t"," ","a","t"," ","a","l","l"," ","w","o","r","r","i","e","d">>

\* the keyword without a negation
TextWorriedAboutWork ==
  <<"I","'","m"," ","w","o","r","r","i","e","d"," ","a","b","o","u","t"," ","w","o","r","k">>

\* the letters of the keyword inside a longer word, then the keyword negated
TextSadlyNotSad ==
  <<"s","a","d","l","y"," ","I"," ","a","m"," ","n","o","t"," ","s","a","d">>

\* the negation starts 30 characters before the keyword
TextNegationAt30 ==
  <<"n","o","t"," ","o","n","c","e"," ","i","n"," ","m","y"," ","o","w","n"," ","l","i","f","e"," ","w","a","s"," ","I"," ","s","a","d">>

\* the negation starts 31 characters before the keyword
TextNegationAt31 ==
  <<"n","o","t"," ","o","n","c","e"," ","i","n"," ","m","y"," ","l","o","n","g"," ","l","i","f","e"," ","w","a","s"," ","I"," ","s","a","d">>

\* a reference text of the documentation
TextFeelingSadAndWorried ==
  <<"f","e","e","l","i","n","g"," ","s","a","d"," ","a","n","d"," ","w","o","r","r","i","e","d">>

\* "over" inside a longer word
TextFeelOverwhelmed ==
  <<"I"," ","f","e","e","l"," ","o","v","e","r","w","h","e","l","m","e","d">>

\* "over" standing alone
TextOverNow ==
  <<"i","t","'","s"," ","o","v","e","r"," ","n","o","w">>

\* "sad" inside a longer word
TextSadly ==
  <<"s","a","d","l","y">>

\* "down" inside a longer word
TextDowntown ==
  <<"d","o","w","n","t","o","w","n">>

\* a two-word phrase, contiguous
TextHardTime ==
  <<"h","a","v","i","n","g"," ","a"," ","h","a","r","d"," ","t","i","m","e">>

\* the words of a two-word phrase, apart
TextHardToFindTime ==
  <<"h","a","r","d"," ","t","o"," ","f","i","n","d"," ","t","i","m","e">>

\* "test" inside a longer word
TextLatest ==
  <<"l","a","t","e","s","t">>

\* "call" inside a longer word
TextRecallThat ==
  <<"r","e","c","a","l","l"," ","t","h","a","t">>

\* "screen" inside a longer word
TextScreenshot ==
  <<"s","c","r","e","e","n","s","h","o","t">>

\* phrases of the three explicit-intent groups, in reverse order
TextAllGroups ==
  <<"t","a","l","k"," ","t","o"," ","s","o","m","e","o","n","e"," ","a","b","o","u","t"," ","a"," ","t","h","e","r","a","p","y"," ","t","e","s","t">>

\* an escalation phrase before a resource phrase
TextPersonHotline ==
  <<"r","e","a","l"," ","p","e","r","s","o","n"," ","h","o","t","l","i","n","e">>

\* a HIGH phrase and a MILD phrase
TextOverwhelmedAndSad ==
  <<"o","v","e","r","w","h","e","l","m","e","d"," ","a","n","d"," ","s","a","d">>

\* test_2level_distress.py:43: one keyword three times, two more once
TextStrugglingThrice ==
  <<"s","t","r","u","g","g","l","i","n","g"," ","s","t","r","u","g","g","l","i","n","g"," ","s","t","r","u","g","g","l","i","n","g"," ","w","o","r","r","i","e","d"," ","s","t","r","e","s","s","e","d">>

\* no keyword, one '!'
TextHelloShout ==
  <<"h","e","l","l","o","!">>

\* test_final_2level_validation.py:109: no keyword, one ALL-CAPS token
TextSymptomsOfPTSD ==
  <<"w","h","a","t"," ","a","r","e"," ","t","h","e"," ","s","y","m","p","t","o","m","s"," ","o","f"," ","P","T","S","D">>

\* a negation before the letters of "sad" inside "sadly", a standalone "sad" far behind it
TextNotSadlyButSad ==
  <<"n","o","t"," ","s","a","d","l","y"," ","b","u","t"," ","a","f","t","e","r"," ","a","l","l"," ","o","f"," ","t","h","i","s"," ","t","i","m","e"," ","I"," ","a","m"," ","s","a","d">>

\* the letters of "over" inside "overwhelmed", then a negated standalone "over"
TextOverwhelmedNotOver ==
  <<"I"," ","f","e","e","l"," ","o","v","e","r","w","h","e","l","m","e","d",","," ","i","t"," ","i","s"," ","n","o","t"," ","o","v","e","r">>

\* test_router_refactoring.py:83
TextSecondOne ==
  <<"s","e","c","o","n","d"," ","o","n","e">>

\* test_router_refactoring.py:84
TextTheThird ==
  <<"t","h","e"," ","t","h","i","r","d">>

\* test_router_refactoring.py:85
TextOptionTwo ==
  <<"o","p","t","i","o","n"," ","2">>

\* a "choice" phrase of selection_map
TextChoiceThree ==
  <<"c","h","o","i","c","e"," ","3">>

\* reference inputs of the tests and of the documentation
ReferenceTexts ==
  {TextVerySadShout, TextSoVerySad, TextExtremelyAnxious,
   TextNotAtAllWorried, TextWorriedAboutWork, TextSadlyNotSad,
   TextNegationAt30, TextNegationAt31, TextFeelingSadAndWorried,
   TextFeelOverwhelmed, TextOverNow, TextSadly,
   TextDowntown, TextHardTime, TextHardToFindTime,
   TextLatest, TextRecallThat, TextScreenshot,
   TextAllGroups, TextPersonHotline, TextOverwhelmedAndSad,
   TextStrugglingThrice, TextHelloShout, TextSymptomsOfPTSD,
   TextNotSadlyButSad, TextOverwhelmedNotOver, TextSecondOne,
   TextTheThird, TextOptionTwo, TextChoiceThree}

Texts ==
  {JoinWords(ws) : ws \in UNION {[1..n -> Phrases] : n \in 0..MaxPhrases}}
    \cup ReferenceTexts

MenuThree ==
  << <<"H","o","t","l","i","n","e"," ","A">>,
     <<"T","h","e","r","a","p","y"," ","B">>,
     <<"T","a","l","k"," ","C">> >>

MenuOne == << <<"T","a","l","k"," ","C">> >>

\* the dict the web and CLI front ends build per message:
\* interface/web/app.py:194-204, app.py:566-577
InitialState(query, context) ==
  [current_query |-> query, messages |-> <<>>, current_agent |-> "",
   crisis_detected |-> FALSE, context |-> context, distress_level |-> "none",
   last_menu_options |-> <<>>, turn_count |-> 0]

\* states a caller of router_node may pass: the front ends' dict, a dict
\* without the optional fields, and dicts that carry a published menu
CallerStates(query) ==
  { InitialState(query, <<>>),
    [current_query |-> query, messages |-> <<>>, current_agent |-> "",
     crisis_detected |-> FALSE, context |-> <<>>, distress_level |-> "none"],
    [InitialState(query, <<"assessment_context">>)
       EXCEPT !.last_menu_options = MenuThree, !.turn_count = 1],
    [InitialState(query, <<>>)
       EXCEPT !.last_menu_options = MenuOne, !.turn_count = 2] }

----------------------------------------------------------------------------------------------------------------------------------------
(* Specification of one workflow run on any caller state *)

Init ==
  /\ \E query \in Texts : state \in CallerStates(query)
  /\ pc = "router"
  /\ retrievals = 0
  /\ shown_menu = <<>>
  /\ lexicon = LexiconTables
  /\ turns = 1

Next ==
  \/ RouterNode
  \/ CrisisNode
  \/ InformationNode
  \/ ResourceNode
  \/ AssessmentNode
  \/ EscalationNode

Spec == Init /\ [][Next]_vars

----------------------------------------------------------------------------
(* Specification of a conversation through the front ends *)

\* messages of one conversation
MaxTurns == 2

\* between two messages no AgentState exists
NoState == <<>>

\* interface/web/app.py:194-207, app.py:566-581: every message gets a new
\* dict with an empty menu and a zero turn count, and the workflow runs on it
Chat(text) ==
  /\ pc = "idle"
  /\ turns < MaxTurns
  /\ state' = InitialState(text, <<>>)
  /\ pc' = "router"
  /\ retrievals' = 0
  /\ turns' = turns + 1
  /\ UNCHANGED <<shown_menu, lexicon>>

\* interface/web/app.py:210-239: the reply is sent, the dict is dropped
ChatReturn ==
  /\ pc = "end"
  /\ state' = NoState
  /\ pc' = "idle"
  /\ UNCHANGED <<retrievals, shown_menu, turns, lexicon>>

InitChat ==
  /\ state = NoState
  /\ pc = "idle"
  /\ retrievals = 0
  /\ shown_menu = <<>>
  /\ lexicon = LexiconTables
  /\ turns = 0

NextChat ==
  \/ \E text \in Texts : Chat(text)
  \/ RouterNode
  \/ CrisisNode
  \/ InformationNode
  \/ ResourceNode
  \/ AssessmentNode
  \/ EscalationNode
  \/ ChatReturn

SpecChat == InitChat /\ [][NextChat]_vars

----------------------------------------------------------------------------
(* Properties *)

Agents ==
  {"crisis_intervention", "assessment", "resource", "human_escalation",
   "information"}

\* router_node has returned its decision and no handler has run yet
Routed == pc \in Agents

\* the text holds a phrase of the crisis list, whatever its case
HasCrisisPhrase(text) ==
  \E k \in 1..Len(crisis_keywords) : Contains(Lower(text), crisis_keywords[k])

\* the target the tiers below the menu tier give a text
LowerTierTarget(text) ==
  IF detect_explicit_intent(text) # "" THEN detect_explicit_intent(text)
  ELSE IF detect_distress_level(text).level # "none" THEN "information"
  ELSE classify_query_fast(text)

TextCrisisAll ==
  <<"s","a","d"," ","f","i","r","s","t"," ","t","e","s","t"," ","n","e","v","e","r"," ","H","u","r","t"," ","M","y","s","e","l","f">>

TextOverwhelmedTest ==
  <<"o","v","e","r","w","h","e","l","m","e","d"," ","t","e","s","t">>

TextFourthTest == <<"f","o","u","r","t","h"," ","t","e","s","t">>

TextVerySadTiredAlone ==
  <<"v","e","r","y"," ","s","a","d"," ","t","i","r","e","d"," ","a","l","o","n","e">>

\* C1: a text holding a crisis phrase (any case, negated or not) is routed
\* to the crisis handler with crisis_detected set, whatever the session
\* holds and whatever else the text matches; routing it never fails.
C1_CrisisOverride ==
  (pc # "router" /\ HasCrisisPhrase(state.current_query)) =>
     /\ pc # "error"
     /\ state.crisis_detected
     /\ Routed => (pc = "crisis_intervention"
                   /\ state.current_agent = "crisis_intervention")
     /\ pc = "end" => state.messages[Len(state.messages)] = "crisis_reply"

\* a negated crisis phrase in a text that is also a menu reply, an
\* assessment request and a distress text, routed with a menu published
C1_Witness ==
  /\ pc = "crisis_intervention"
  /\ state.current_query = TextCrisisAll
  /\ state.last_menu_options = MenuThree
  /\ state.crisis_detected

\* C2: the decision of every routed message carries the level and score
\* the distress scorer gives its text, whichever tier chose the target.
C2_DistressAlwaysAttached ==
  Routed =>
     /\ state.distress_level = detect_distress_level(state.current_query).level
     /\ state.distress_score = detect_distress_level(state.current_query).score

\* C3: without a crisis phrase the target comes from the first tier that
\* fires: the menu tier, then explicit intent (also when the text scores on
\* the distress tables), then distress (information, with level and score),
\* and the fallback classifier only when the level is none.
C3_PriorityChain ==
  (Routed /\ ~HasCrisisPhrase(state.current_query)) =>
     LET query == state.current_query
         distress == detect_distress_level(query)
     IN IF detect_menu_reply(query, GetMenu(state))
        THEN state.current_agent \in {"resource", "information"}
        ELSE IF detect_explicit_intent(query) # ""
        THEN state.current_agent = detect_explicit_intent(query)
        ELSE IF distress.level # "none"
        THEN /\ state.current_agent = "information"
             /\ state.distress_level = distress.level
             /\ state.distress_score = distress.score
        ELSE /\ state.current_agent = classify_query_fast(query)
             /\ state.distress_level = "none"

\* an assessment request that also scores high goes to assessment
C3_Witness ==
  /\ pc = "assessment"
  /\ state.current_query = TextOverwhelmedTest
  /\ detect_distress_level(state.current_query).score >= 2
  /\ ~detect_menu_reply(state.current_query, GetMenu(state))

\* C4: with an empty menu no text is a menu reply, so a text without a
\* crisis phrase gets the target of the explicit-intent, distress and
\* fallback tiers.
C4_EmptyMenuNoMenuReply ==
  (Routed /\ GetMenu(state) = <<>> /\ ~HasCrisisPhrase(state.current_query)) =>
     /\ ~detect_menu_reply(state.current_query, <<>>)
     /\ state.current_agent = LowerTierTarget(state.current_query)

\* the reply names a position outside 1..Len(options): a bare integer out
\* of range, or ordinal phrases none of which has a position in the list
OutOfRangeReply(text, options) ==
  LET query_lower == Strip(Lower(text))
  IN \/ /\ IntDefined(query_lower)
        /\ (IntOf(query_lower) < 1 \/ IntOf(query_lower) > Len(options))
     \/ /\ ~IsDigit(query_lower)
        /\ ContainsAny(query_lower, selection_patterns)
        /\ \A k \in 1..Len(selection_map) :
              Contains(query_lower, selection_map[k][1])
                 => selection_map[k][2] >= Len(options)

\* C5: with a menu published, a reply naming a position outside it is
\* decided by the explicit-intent, distress and fallback tiers.
C5_OutOfRangeFallsThrough ==
  (/\ Routed
   /\ GetMenu(state) # <<>>
   /\ ~HasCrisisPhrase(state.current_query)
   /\ OutOfRangeReply(state.current_query, GetMenu(state))) =>
     state.current_agent = LowerTierTarget(state.current_query)

\* C6: when the previous reply displayed a numbered menu, the message that
\* follows is routed with exactly that list in last_menu_options.
C6_MenuWrittenBack ==
  (pc = "router" /\ shown_menu # <<>>) => GetMenu(state) = shown_menu

\* the resource indicators the menu tier looks for in the selected option
C7_Indicators ==
  << <<"h","o","t","l","i","n","e">>, <<"h","e","l","p","l","i","n","e">>,
     <<"c","h","a","t">>, <<"i","m","h">>, <<"s","o","s">>,
     <<"s","e","r","v","i","c","e">>, <<"t","h","e","r","a","p","y">> >>

\* C7: a selection the menu tier resolves goes to resource when the
\* selected option's text holds a resource indicator (any case) and to
\* information otherwise; with ["Hotline A","Therapy B","Talk C"], "2"
\* goes to resource and "3" to information.
C7_MenuTarget ==
  (Routed /\ ~HasCrisisPhrase(state.current_query)) =>
     LET query == state.current_query
         options == GetMenu(state)
         selected == extract_menu_selection(query, options)
     IN /\ (detect_menu_reply(query, options) /\ selected # <<>>) =>
              state.current_agent =
                 IF ContainsAny(Lower(selected), C7_Indicators)
                 THEN "resource" ELSE "information"
        /\ (options = MenuThree /\ query = <<"2">>) => pc = "resource"
        /\ (options = MenuThree /\ query = <<"3">>) => pc = "information"

\* "2" selects "Therapy B" and is routed to resource
C7_Witness ==
  /\ pc = "resource"
  /\ state.current_query = <<"2">>
  /\ state.last_menu_options = MenuThree
  /\ extract_menu_selection(state.current_query, state.last_menu_options)
        = MenuThree[2]

\* C8: for every text and option list extract_menu_selection returns an
\* element of the list or the empty string.
C8_SelectionInOptions ==
  pc # "idle" =>
     LET query == state.current_query
         options == GetMenu(state)
     IN /\ ~extract_menu_selection_raises(query, options)
        /\ LET selected == extract_menu_selection(query, options)
           IN selected = <<>> \/ \E k \in 1..Len(options) : options[k] = selected

\* no detector matches the text
NoDetectorMatches(text, options) ==
  /\ ~HasCrisisPhrase(text)
  /\ ~detect_menu_reply(text, options)
  /\ detect_explicit_intent(text) = ""
  /\ detect_distress_level(text).level = "none"
  /\ classify_query_fast(text) = "information"

\* C9: routing returns a decision for every text and session and never
\* raises; the empty text and any text no detector matches get the default
\* decision (no crisis, level none, score 0, target information).
C9_Total ==
  /\ pc # "error"
  /\ (Routed /\ (state.current_query = <<>>
                 \/ NoDetectorMatches(state.current_query, GetMenu(state)))) =>
        /\ ~state.crisis_detected
        /\ state.distress_level = "none"
        /\ state.distress_score = 0
        /\ state.current_agent = "information"

KeywordSum(text) ==
  SumTable(HIGH_DISTRESS_KEYWORDS, Lower(text), Len(HIGH_DISTRESS_KEYWORDS))
    + SumTable(MILD_DISTRESS_KEYWORDS, Lower(text), Len(MILD_DISTRESS_KEYWORDS))

\* an adverb of the list occurs somewhere in the text, in any case
HasAdverb(text) ==
  \E k \in 1..Len(intensity_adverbs) : Contains(Lower(text), intensity_adverbs[k])

\* the whitespace-separated tokens of at least two characters that have a
\* cased character and no lowercase one
CapsTokens(text) ==
  Cardinality({w \in SplitWords(text) : Len(w[2]) >= 2 /\ IsUpper(w[2])})

\* the score the formula gives a keyword sum, in halves
FormulaScore(text, sum) ==
  (IF HasAdverb(text) THEN 3 * sum ELSE 2 * sum)
    + 4 * CountChar(text, "!") + 6 * CapsTokens(text)

NegationWords ==
  LET W == NegWords
  IN {W.not, W.never, W.no, W.neither, W.don_t, W.dont, W.doesn_t, W.doesnt,
      W.didn_t, W.didnt, W.won_t, W.wont, W.isn_t, W.isnt, W.wasn_t, W.wasnt,
      W.hardly, W.barely, W.scarcely}

\* 0-based index of the first occurrence of the phrase that has a word
\* boundary on both sides
MatchPosition(phrase, text) ==
  LET hits == {i \in 1..(Len(text) - Len(phrase) + 1) :
                 /\ OccursAtNoCase(phrase, text, i)
                 /\ WordBoundaryAt(text, i)
                 /\ WordBoundaryAt(text, i + Len(phrase))}
  IN (CHOOSE i \in hits : \A h \in hits : i <= h) - 1

\* a negation word followed by whitespace lies within the NegationWindow
\* characters that end right before the 0-based index position
NegationBefore(text, position) ==
  LET first == IF position - NegationWindow > 0
               THEN position - NegationWindow + 1 ELSE 1
  IN \E w \in NegationWords : \E i \in first..position :
        /\ OccursAtNoCase(w, text, i)
        /\ WordBoundaryAt(text, i)
        /\ i + Len(w) <= position
        /\ text[i + Len(w)] \in Whitespace

\* C12: a matched table phrase adds nothing exactly when a negation or
\* diminisher word followed by whitespace lies within the 30 characters
\* right before the phrase; "I am not at all worried" scores (none, 0) and
\* "I'm worried about work" is mild.
C12_NegationSuppression ==
  Routed =>
     LET query == state.current_query
         query_lower == Lower(query)
         table == HIGH_DISTRESS_KEYWORDS \o MILD_DISTRESS_KEYWORDS
     IN /\ \A k \in 1..Len(table) :
              matches_with_word_boundary(table[k][1], query_lower) =>
                 (Contribution(table[k], query_lower) = 0
                    <=> NegationBefore(query_lower,
                                       MatchPosition(table[k][1], query_lower)))
        /\ query = TextNotAtAllWorried =>
              detect_distress_level(query) = [level |-> "none", score |-> 0]
        /\ query = TextWorriedAboutWork =>
              detect_distress_level(query).level = "mild"

StandaloneAt(phrase, text, i) ==
  /\ OccursAtNoCase(phrase, text, i)
  /\ (i = 1 \/ ~IsWordChar(text[i - 1]))
  /\ (i + Len(phrase) > Len(text) \/ ~IsWordChar(text[i + Len(phrase)]))

PhraseOver == <<"o","v","e","r">>
PhraseSad == <<"s","a","d">>
PhraseDown == <<"d","o","w","n">>
PhraseHardTime == <<"h","a","r","d"," ","t","i","m","e">>

\* C14: a table phrase matches a text exactly when it occurs in it, in any
\* case, with a word boundary on both sides: never inside a longer word
\* ("over" in "I feel overwhelmed", "sad" in "sadly", "down" in "downtown"),
\* always when it stands alone ("over" in "it's over now"), and a phrase of
\* several words only as the contiguous word sequence.
C14_WordBoundary ==
  Routed =>
     LET query == state.current_query
         table == HIGH_DISTRESS_KEYWORDS \o MILD_DISTRESS_KEYWORDS
     IN /\ \A k \in 1..Len(table) :
              /\ matches_with_word_boundary(table[k][1], query)
                    <=> \E i \in 1..Len(query) : StandaloneAt(table[k][1], query, i)
              /\ matches_with_word_boundary(table[k][1], Lower(query))
                    <=> matches_with_word_boundary(table[k][1], query)
        /\ query = TextFeelOverwhelmed => ~matches_with_word_boundary(PhraseOver, query)
        /\ query = TextSadly => ~matches_with_word_boundary(PhraseSad, query)
        /\ query = TextDowntown => ~matches_with_word_boundary(PhraseDown, query)
        /\ query = TextOverNow => matches_with_word_boundary(PhraseOver, query)
        /\ query = TextHardTime => matches_with_word_boundary(PhraseHardTime, query)
        /\ query = TextHardToFindTime =>
              ~matches_with_word_boundary(PhraseHardTime, query)
        /\ (Routed /\ query \in {TextSadly, TextDowntown, TextHardToFindTime}) =>
              state.distress_level = "none"

\* "it's over now": the standalone "over" is matched and scored
C14_Witness ==
  /\ pc = "information"
  /\ state.current_query = TextOverNow
  /\ matches_with_word_boundary(PhraseOver, state.current_query)
  /\ state.distress_level = "high"
  /\ state.distress_score = 10

\* some keyword of the list occurs in the text as whole words
WholeWordAny(text, keywords) ==
  \E k \in 1..Len(keywords) : matches_with_word_boundary(keywords[k], text)

\* C15: the explicit-intent detector and the fallback classifier fire only
\* on whole-word occurrences of their phrases; "test" inside "latest",
\* "call" inside "recall" and "screen" inside "screenshot" give neither an
\* assessment nor a resource target.
C15_WholeWordIntent ==
  Routed =>
     LET query == state.current_query
         intent == detect_explicit_intent(query)
         topic == classify_query_fast(query)
     IN /\ intent = "assessment" => WholeWordAny(query, assessment_keywords)
        /\ intent = "resource" => WholeWordAny(query, resource_keywords)
        /\ intent = "human_escalation" => WholeWordAny(query, escalation_keywords)
        /\ topic = "assessment" => WholeWordAny(query, fast_assessment_keywords)
        /\ topic = "resource" => WholeWordAny(query, fast_resource_keywords)
        /\ topic = "human_escalation" => WholeWordAny(query, fast_escalation_keywords)
        /\ query \in {TextLatest, TextRecallThat, TextScreenshot} =>
              state.current_agent \notin {"assessment", "resource"}

\* the explicit-intent groups in their order, each with its label
IntentGroups ==
  << <<"assessment", assessment_keywords>>,
     <<"resource", resource_keywords>>,
     <<"human_escalation", escalation_keywords>> >>

\* the groups of which a phrase occurs in the text, in any case
GroupsHit(text) ==
  {g \in 1..Len(IntentGroups) :
     \E k \in 1..Len(IntentGroups[g][2]) :
        Contains(Lower(text), IntentGroups[g][2][k])}

SessionFrame(st) ==
  [k \in DOMAIN st \ {"turn_count", "current_agent", "distress_level",
                       "distress_score", "crisis_detected", "messages",
                       "context"} |-> st[k]]

\* C17: routing a message raises turn_count by exactly 1, a missing counter
\* counting as 0, on every tier (crisis and menu replies included) and also
\* when routing fails; no handler and no other step of the run changes it,
\* and routing leaves the rest of the session state as it was.
C17_TurnCounted ==
  [][/\ pc = "router" =>
          /\ state'.turn_count = Get(state, "turn_count", 0) + 1
          /\ SessionFrame(state') =
                SessionFrame(Put(state, "last_menu_options", GetMenu(state)))
     /\ pc \in Agents => state'.turn_count = state.turn_count]_vars

\* a crisis message routed on a session whose counter stood at 2
C17_Witness ==
  /\ pc = "crisis_intervention"
  /\ state.last_menu_options = MenuOne
  /\ state.turn_count = 3

\* C18: the session state lives as long as the conversation, so once the
\* n-th message of a conversation has been routed turn_count is n.
C18_TurnCountIsMessageNumber ==
  (pc \in Agents \cup {"end"}) => state.turn_count = turns

\* C19: router_node leaves the contents of last_menu_options as they were
\* for every text and on every tier, a resolved menu reply included; the
\* one write it makes is the empty list for a field that was missing.
C19_MenuUntouched ==
  [][pc = "router" =>
       /\ "last_menu_options" \in DOMAIN state'
       /\ state'.last_menu_options =
             IF "last_menu_options" \in DOMAIN state
             THEN state.last_menu_options ELSE <<>>]_vars

\* "3" resolved against the published menu, which is still in place
C19_Witness ==
  /\ pc = "information"
  /\ state.current_query = <<"3">>
  /\ detect_menu_reply(state.current_query, MenuThree)
  /\ state.last_menu_options = MenuThree

\* sessions that hold the given menu and differ in everything else
SessionsWith(query, menu) ==
  {[InitialState(query, context)
      EXCEPT !.last_menu_options = menu, !.turn_count = n,
             !.distress_level = level, !.crisis_detected = (level = "high"),
             !.current_agent = IF n = 0 THEN "" ELSE "complete"] :
     context \in {<<>>, <<"assessment_context">>}, n \in {0, 3},
     level \in {"none", "high"}}

\* C20: the decision is a function of the text and of last_menu_options
\* alone: the decision router_node stored equals the one route_query gives
\* for the same text on any session holding the same menu, whatever its
\* turn count, context, earlier level, crisis flag or agent.
C20_Deterministic ==
  Routed =>
     LET query == state.current_query
         stored == Decision(state.current_agent, state.distress_level,
                            state.distress_score, state.crisis_detected)
     IN \A other \in SessionsWith(query, GetMenu(state)) \cup
                       {[current_query |-> query,
                         last_menu_options |-> GetMenu(state)]} :
           /\ ~route_query_raises(query, other)
           /\ route_query(query, other) = stored

\* a distress text routed on a session that is two messages old
C20_Witness ==
  /\ pc = "information"
  /\ state.current_query = TextVerySadTiredAlone
  /\ state.last_menu_options = MenuOne
  /\ state.turn_count = 3
  /\ state.distress_score = 9

----------------------------------------------------------------------------
(* Specification of router_node calls for different sessions, interleaved *)
(* as the threads of the web server interleave them.  Here state, pc and  *)
(* retrievals hold one entry per session.                                 *)

\* sessions with a call in flight
MaxSessions == 2

Sessions == 1..MaxSessions

\* the text and the published menu of a call: one per tier, and one that
\* makes int() raise
ParInputs ==
  { <<TextCrisisAll, MenuThree>>, << <<"2">>, MenuThree >>,
    <<TextOverwhelmedTest, <<>> >>, <<TextVerySadShout, <<>> >>,
    << <<"sup2">>, MenuOne >> }

\* the dict a call starts from
ParStart(query, menu) ==
  [InitialState(query, <<>>) EXCEPT !.last_menu_options = menu]

\* router_agent.py:462-470: the decision is stored, the crisis notice added
StoreDecision(st, routing_result) ==
  LET s1 == Put(st, "current_agent", routing_result.agent)
      s2 == Put(s1, "distress_level", routing_result.distress_level)
      s3 == Put(s2, "distress_score", routing_result.distress_score)
      s4 == Put(s3, "crisis_detected", routing_result.crisis_detected)
  IN IF routing_result.crisis_detected
     THEN Put(s4, "messages", Append(s4.messages, CrisisNotice))
     ELSE s4

\* router_agent.py:472-473 on the stored decision
FetchesContext(st) ==
  /\ st.current_agent # "crisis_intervention"
  /\ ~detect_menu_reply(st.current_query, GetMenu(st))

\* a turn counter shared by the sessions instead of the session's own
ParCount_shared(s) ==
  /\ pc[s] = "count"
  /\ state' = [t \in Sessions |-> CountTurn(state[t])]
  /\ pc' = [pc EXCEPT ![s] = "route"]
  /\ UNCHANGED <<retrievals, shown_menu, turns, lexicon>>

\* router_agent.py:451-457
ParCount(s) ==
  /\ pc[s] = "count"
  /\ state' = [state EXCEPT ![s] = CountTurn(state[s])]
  /\ pc' = [pc EXCEPT ![s] = "route"]
  /\ UNCHANGED <<retrievals, shown_menu, turns, lexicon>>

\* router_agent.py:459-470: route_query reads the session and the lexicon
ParRoute(s) ==
  /\ pc[s] = "route"
  /\ IF route_query_raises(state[s].current_query, state[s])
     THEN /\ pc' = [pc EXCEPT ![s] = "error"]
          /\ UNCHANGED state
     ELSE /\ state' = [state EXCEPT ![s] =
                StoreDecision(state[s], route_query(state[s].current_query, state[s]))]
          /\ pc' = [pc EXCEPT ![s] = "context"]
  /\ UNCHANGED <<retrievals, shown_menu, turns, lexicon>>

\* router_agent.py:472-487: the context is fetched if needed, the call returns
ParContext(s) ==
  /\ pc[s] = "context"
  /\ IF FetchesContext(state[s])
     THEN /\ state' = [state EXCEPT ![s] =
                Put(state[s], "context",
                    Append(Get(state[s], "context", <<>>), RoutingContext))]
          /\ retrievals' = [retrievals EXCEPT ![s] = retrievals[s] + 1]
     ELSE UNCHANGED <<state, retrievals>>
  /\ pc' = [pc EXCEPT ![s] = "returned"]
  /\ UNCHANGED <<shown_menu, turns, lexicon>>

InitPar ==
  /\ state \in [Sessions -> {ParStart(i[1], i[2]) : i \in ParInputs}]
  /\ pc = [s \in Sessions |-> "count"]
  /\ retrievals = [s \in Sessions |-> 0]
  /\ shown_menu = <<>>
  /\ turns = 0
  /\ lexicon = LexiconTables

NextPar ==
  \E s \in Sessions :
     \/ ParCount(s)
     \/ ParRoute(s)
     \/ ParContext(s)

SpecPar == InitPar /\ [][NextPar]_vars

\* what a call that runs alone has made of its session at each position
AloneAt(position, query, menu) ==
  LET start == ParStart(query, menu)
      counted == CountTurn(start)
  IN IF position = "count" THEN start
     ELSE IF position \in {"route", "error"} THEN counted
     ELSE IF position = "context"
     THEN StoreDecision(counted, route_query(query, counted))
     ELSE ApplyRouting(counted, route_query(query, counted))

\* C21: calls for different sessions may interleave in any order: at every
\* point each session's state is what its own call, run alone, makes of it
\* (so its decision and final state are the same), a step of one call
\* leaves every other session as it was, and the HIGH/MILD tables stay as
\* they were loaded.
C21_SessionsIsolated ==
  /\ [](/\ lexicon = LexiconTables
        /\ \A s \in Sessions :
              /\ (pc[s] = "error") <=>
                    (pc[s] \notin {"count", "route"}
                       /\ route_query_raises(state[s].current_query, state[s]))
              /\ state[s] = AloneAt(pc[s], state[s].current_query,
                                    state[s].last_menu_options)
              /\ pc[s] = "returned" =>
                    retrievals[s] = IF FetchesContext(state[s]) THEN 1 ELSE 0)
  /\ [][\A s \in Sessions :
           pc'[s] = pc[s] =>
              (state'[s] = state[s] /\ retrievals'[s] = retrievals[s])]_vars

\* two calls in flight at once: the first has stored a crisis decision,
\* the second has counted its turn and is about to route
C21_Witness ==
  /\ pc[1] = "context"
  /\ pc[2] = "route"
  /\ state[1].crisis_detected
  /\ state[2].turn_count = 1
  /\ state[2].current_query = TextOverwhelmedTest

----------------------------------------------------------------------------
\* the phrases of a table
PhrasesOf(table) == {table[k][1] : k \in 1..Len(table)}

\* C22: the tables the scorer reads never share a phrase, every entry of
\* the HIGH table weighs 5 and every entry of the MILD table weighs 1.
C22_LexiconInvariant ==
  /\ PhrasesOf(lexicon.HIGH_DISTRESS_KEYWORDS)
        \cap PhrasesOf(lexicon.MILD_DISTRESS_KEYWORDS) = {}
  /\ \A k \in 1..Len(lexicon.HIGH_DISTRESS_KEYWORDS) :
        lexicon.HIGH_DISTRESS_KEYWORDS[k][2] = 5
  /\ \A k \in 1..Len(lexicon.MILD_DISTRESS_KEYWORDS) :
        lexicon.MILD_DISTRESS_KEYWORDS[k][2] = 1

\* a message has been scored from both tables
C22_Witness ==
  /\ Routed
  /\ state.current_query = TextOverwhelmedAndSad
  /\ state.distress_score = 2 * 6
  /\ LET query_lower == Lower(state.current_query)
     IN /\ SumTable(lexicon.HIGH_DISTRESS_KEYWORDS, query_lower,
                    Len(lexicon.HIGH_DISTRESS_KEYWORDS)) >= 5
        /\ SumTable(lexicon.MILD_DISTRESS_KEYWORDS, query_lower,
                    Len(lexicon.MILD_DISTRESS_KEYWORDS)) >= 1

----------------------------------------------------------------------------
\* the groups of the fallback classifier in their order, each with its label
FastGroups ==
  << <<"assessment", fast_assessment_keywords>>,
     <<"resource", fast_resource_keywords>>,
     <<"human_escalation", fast_escalation_keywords>>,
     <<"information", info_keywords>> >>

\* the groups of which a keyword occurs in the text, in any case
FastGroupsHit(text) ==
  {g \in 1..Len(FastGroups) :
     \E k \in 1..Len(FastGroups[g][2]) :
        Contains(Lower(text), FastGroups[g][2][k])}

\* no tier before the fallback takes the message
ReachesFallback(query, st) ==
  /\ ~HasCrisisPhrase(query)
  /\ ~detect_menu_reply(query, GetMenu(st))
  /\ detect_explicit_intent(query) = ""
  /\ detect_distress_level(query).level = "none"

\* C23: classify_query_fast returns the label of the first group, in the
\* order assessment, resource, escalation, education, of which a keyword
\* occurs in the text, and the general-information label when there is
\* none; the label is one of assessment, resource, human_escalation,
\* information, never the crisis one, and it is the agent of a message
\* that no earlier tier takes.
C23_FastClassifier ==
  Routed =>
     LET query == state.current_query
         hits == FastGroupsHit(query)
         label == classify_query_fast(query)
     IN /\ hits = {} => label = "information"
        /\ hits # {} =>
              label = FastGroups[CHOOSE g \in hits : \A h \in hits : g <= h][1]
        /\ label \in {"assessment", "resource", "human_escalation", "information"}
        /\ label # "crisis_intervention"
        /\ query = TextAllGroups => (hits = {1, 2, 3} /\ label = "assessment")
        /\ ReachesFallback(query, state) => state.current_agent = label

\* a message that only the fallback classifier recognises
C23_Witness ==
  /\ pc = "human_escalation"
  /\ state.current_query = <<"h","u","m","a","n">>
  /\ ReachesFallback(state.current_query, state)
  /\ FastGroupsHit(state.current_query) = {3}

----------------------------------------------------------------------------
\* the replies the handlers have appended to messages
HandlerReplies(st) ==
  {k \in 1..Len(st.messages) : st.messages[k] # CrisisNotice}

\* C24: the workflow is at the router, at one of the five handlers or at
\* its end, never stopped in between; the decision the router stored names
\* the handler that runs next, and at the end exactly one handler has
\* replied and marked the message complete.
C24_OneHandlerThenEnd ==
  /\ pc \in {"router", "end"} \cup Agents
  /\ Routed => (state.current_agent = pc /\ HandlerReplies(state) = {})
  /\ pc = "end" =>
        (state.current_agent = "complete"
           /\ Cardinality(HandlerReplies(state)) = 1)

----------------------------------------------------------------------------
\* route_query has called detect_distress_level: no earlier tier returned
\* (router_agent.py:389-421)
DistressChecked(query, st) ==
  /\ ~detect_crisis(query)
  /\ ~detect_menu_reply(query, GetMenu(st))
  /\ detect_explicit_intent(query) = ""

\* the number of crisis notices in messages
CrisisNotices(st) ==
  Cardinality({k \in 1..Len(st.messages) : st.messages[k] = CrisisNotice})

\* the frame of C25: at most one retrieval per message, none and an
\* unchanged context on a crisis decision or a menu reply, one crisis
\* notice on crisis and none otherwise
RetrievalFrame ==
  pc = "router" =>
     LET menu_reply == pc' # "error"
                         /\ detect_menu_reply(state.current_query, GetMenu(state))
         crisis == pc' = "crisis_intervention"
         fetched == retrievals' - retrievals
     IN /\ fetched \in {0, 1}
        /\ (crisis \/ menu_reply) =>
              /\ fetched = 0
              /\ Get(state', "context", <<>>) = Get(state, "context", <<>>)
        /\ fetched = 0 =>
              Get(state', "context", <<>>) = Get(state, "context", <<>>)
        /\ CrisisNotices(state') = CrisisNotices(state) + (IF crisis THEN 1 ELSE 0)
        /\ crisis <=> (pc' # "error" /\ state'.crisis_detected)

\* C25: router_node calls the retrieval at most once per message and not
\* at all on a crisis decision or a menu reply, where it leaves the context
\* as it was; on crisis it appends exactly one crisis notice; and whenever
\* it calls the retrieval, the crisis check and the distress check have
\* run before.
C25_ShortCircuit ==
  [][/\ RetrievalFrame
     /\ (pc = "router" /\ retrievals' > retrievals) =>
           DistressChecked(state.current_query, state)]_vars

----------------------------------------------------------------------------
\* the positions, inside a list of n options, of the ordinal phrases that
\* occur in the text
NamedPositions(query_lower, n) ==
  {selection_map[k][2] + 1 :
     k \in {j \in 1..Len(selection_map) :
              /\ Contains(query_lower, selection_map[j][1])
              /\ selection_map[j][2] < n}}

\* C26: with a list of n options, a bare integer k with 1 <= k <= n is a
\* menu reply and selects option k; a reply containing an ordinal phrase
\* whose position is at most n is a menu reply and selects the option at
\* the position it names; for a bare integer detect_menu_reply is true
\* exactly when extract_menu_selection returns an option.
C26_PositionalSelection ==
  Routed =>
     LET query == state.current_query
         menu == GetMenu(state)
         n == Len(menu)
         query_lower == Strip(Lower(query))
         bare == IsDigit(query_lower) /\ IntDefined(query_lower)
         named == NamedPositions(query_lower, n)
         is_reply == detect_menu_reply(query, menu)
         selection == extract_menu_selection(query, menu)
     IN /\ (bare /\ 1 <= IntOf(query_lower) /\ IntOf(query_lower) <= n) =>
              (is_reply /\ selection = menu[IntOf(query_lower)])
        /\ bare => (is_reply <=> selection # <<>>)
        /\ (~IsDigit(query_lower) /\ named # {}) =>
              /\ is_reply
              /\ \E p \in named : selection = menu[p]
              /\ \A p \in 1..n : named = {p} => selection = menu[p]
        /\ (n = 3 /\ query \in {TextSecondOne, TextOptionTwo}) => selection = menu[2]
        /\ (n = 3 /\ query \in {TextTheThird, TextChoiceThree}) => selection = menu[3]
        /\ (n = 1 /\ query = TextTheThird) => selection = <<>>

\* "option 2" resolved against a list of three options
C26_Witness ==
  /\ Routed
  /\ state.current_query = TextOptionTwo
  /\ GetMenu(state) = MenuThree
  /\ detect_menu_reply(state.current_query, MenuThree)
  /\ extract_menu_selection(state.current_query, MenuThree) = MenuThree[2]

----------------------------------------------------------------------------
\* the indices at which the phrase stands alone in the text
StandaloneOccurrences(phrase, text) ==
  {i \in 1..Len(text) : StandaloneAt(phrase, text, i)}

\* the standalone occurrences with no negation in the window before them
UnnegatedOccurrences(phrase, text) ==
  {i \in StandaloneOccurrences(phrase, text) : ~NegationBefore(text, i - 1)}

\* C27: every occurrence of a keyword counts: a MILD phrase that stands k
\* times in the text, none of them negated, adds k points, so "struggling
\* struggling struggling worried stressed" scores 5 and is high.
C27_EveryOccurrenceCounts ==
  Routed =>
     LET query == state.current_query
         query_lower == Lower(query)
     IN /\ \A k \in 1..Len(MILD_DISTRESS_KEYWORDS) :
              LET phrase == MILD_DISTRESS_KEYWORDS[k][1]
                  occurrences == StandaloneOccurrences(phrase, query_lower)
              IN UnnegatedOccurrences(phrase, query_lower) = occurrences =>
                    Contribution(MILD_DISTRESS_KEYWORDS[k], query_lower)
                       = Cardinality(occurrences)
        /\ query = TextStrugglingThrice =>
              detect_distress_level(query) = [level |-> "high", score |-> 2 * 5]

\* C28: a text in which no table phrase counts is scored (none, 0) whatever
\* its punctuation and capitals, and level mild needs at least one counted
\* phrase: "what are the symptoms of PTSD" and "hello!" are not distress.
C28_NoDistressWithoutKeyword ==
  Routed =>
     LET query == state.current_query
         result == detect_distress_level(query)
     IN /\ KeywordSum(query) = 0 => result = [level |-> "none", score |-> 0]
        /\ result.level = "mild" => KeywordSum(query) >= 1
        /\ query \in {TextSymptomsOfPTSD, TextHelloShout} => result.level = "none"

\* C30: the negation check is made where the phrase stands alone: a table
\* phrase adds its weight exactly when one of its standalone occurrences has
\* no negation in the window before it, whatever comes earlier in the text
\* (its letters inside a longer word, or a negated occurrence).
C30_NegationAtOccurrence ==
  Routed =>
     LET query_lower == Lower(state.current_query)
         table == HIGH_DISTRESS_KEYWORDS \o MILD_DISTRESS_KEYWORDS
     IN \A k \in 1..Len(table) :
           Contribution(table[k], query_lower) =
              IF UnnegatedOccurrences(table[k][1], query_lower) # {}
              THEN table[k][2] ELSE 0

----------------------------------------------------------------------------
\* C29: in every decision crisis_detected is set exactly when the target is
\* the crisis handler: the crisis tier names no other target, and the menu,
\* explicit-intent, distress and fallback tiers never name the crisis one.
C29_CrisisIffTarget ==
  Routed =>
     LET query == state.current_query
         decision == route_query(query, state)
     IN /\ state.crisis_detected <=> state.current_agent = "crisis_intervention"
        /\ decision.crisis_detected <=> decision.agent = "crisis_intervention"
        /\ detect_crisis(query) <=> decision.agent = "crisis_intervention"
        /\ ~detect_crisis(query) =>
              /\ ~state.crisis_detected
              /\ state.current_agent
                    \in {"assessment", "resource", "human_escalation", "information"}

\* a crisis text routed for a session without a menu
C29_Witness ==
  /\ pc = "crisis_intervention"
  /\ state.current_query = <<"n","e","v","e","r"," ","H","u","r","t"," ","M","y","s","e","l","f">>
  /\ GetMenu(state) = <<>>
  /\ state.crisis_detected
  /\ state.current_agent = "crisis_intervention"

====
